---- MODULE Spec2Model ----
(***************************************************************************)
(* Access-control and visibility core of the complaints API                *)
(* (quejas_app/api_views.py, serializers.py, models.py).                   *)
(*                                                                         *)
(* The state is the entity store (categories, complaints, comments,        *)
(* attachments and the auto-increment keys) plus the request/response      *)
(* exchange in flight.                                                     *)
(* Requests are processed one at a time: a handler action takes a request  *)
(* from permission check to response, and Deliver hands the response to    *)
(* the client, after which the next request is taken.                      *)
(* Requests are shaped as in the framework: kwargs (route parameters),     *)
(* query (query string) and data (request body) are dictionaries, i.e.     *)
(* functions whose DOMAIN is the set of keys actually sent.                *)
(***************************************************************************)
EXTENDS Integers, FiniteSets, TLC

VARIABLES
    complaints,    \* Complaint table: primary key -> row
    complaintSeq,  \* next primary key of the Complaint table
    comments,      \* Comment table: primary key -> row
    commentSeq,    \* next primary key of the Comment table
    attachments,   \* Attachment table: primary key -> row
    attachmentSeq, \* next primary key of the Attachment table
    categories,    \* Category table: unique name -> row
    writes,        \* number of committed writes (creates, updates, deletes)
    resp           \* the request being answered and its response, or NoResponse

vars == <<complaints, complaintSeq, comments, commentSeq, attachments, attachmentSeq,
          categories, writes, resp>>

(***************************************************************************)
(* Bounds of the model.                                                    *)
(***************************************************************************)
MaxComplaints == 2
MaxComments == 1
MaxAttachments == 1
MaxWrites == 3

(***************************************************************************)
(* Identities (the external User model) and configuration data that is     *)
(* maintained outside the API: groups, admin profiles, and the categories  *)
(* that exist when the API is opened.                                      *)
(***************************************************************************)
None == "None"
Anon == "AnonymousUser"

Users == {"ana", "sup", "sol", "sam", "sid", "root"}

Actors == Users \cup {Anon}

is_authenticated(user) == user \in Users

is_staff(user) == user \in {"sol", "sam", "sid", "root"}

is_superuser(user) == user \in {"sup", "root"}

\* django.contrib.auth groups: name -> members.
Groups == [g \in {"Administradores"} |-> {"root"}]

\* Names of the Category rows present at start.
Categories == {"c1", "c2"}

\* AdminProfile rows: user -> assigned categories ("sid" is staff without a row).
AdminProfile == [u \in {"sol", "sam"} |-> IF u = "sol" THEN {"c1"} ELSE {}]

\* profile.categories.all(): the many-to-many rows of a deleted category are gone.
AssignedCategories(user) == AdminProfile[user] \cap DOMAIN categories

STATUS_CHOICES == {"new", "in_progress", "resolved", "rejected"}

(***************************************************************************)
(* Dictionaries.                                                           *)
(***************************************************************************)
Empty == [k \in {} |-> None]

\* dict.get(key): the value, or None when the key is missing.
Get(dict, key) == IF key \in DOMAIN dict THEN dict[key] ELSE None

\* Python truthiness of an optional string.
Truthy(value) == value # None /\ value # ""

(***************************************************************************)
(* Complaint model and serializer.                                         *)
(***************************************************************************)
ComplaintFields ==
    {"reporter", "description", "category", "reporter_name", "reporter_email",
     "status", "assigned_to"}

\* Field defaults of a new Complaint row.
ComplaintDefaults ==
    [reporter |-> None, description |-> "", category |-> None,
     reporter_name |-> "", reporter_email |-> "", status |-> "new",
     assigned_to |-> ""]

\* ComplaintSerializer.Meta.read_only_fields (restricted to modelled fields).
ComplaintReadOnly == {"status"}

ComplaintWritable == ComplaintFields \ ComplaintReadOnly

\* serializer.is_valid(): required fields and existing foreign keys.
ComplaintValid(data, partial) ==
    /\ partial \/ "description" \in DOMAIN data
    /\ "category" \in DOMAIN data => data.category \in DOMAIN categories \cup {None}
    /\ "reporter" \in DOMAIN data => data.reporter \in Users \cup {None}

\* serializer.validated_data: the writable fields that were sent.
ComplaintValidated(data) ==
    [f \in (DOMAIN data) \cap ComplaintWritable |-> data[f]]

\* serializer.save(**extra): validated data overridden by the view's kwargs,
\* written onto the instance.
Save(instance, validated, extra) ==
    [f \in DOMAIN instance |->
        IF f \in DOMAIN extra THEN extra[f]
        ELSE IF f \in DOMAIN validated THEN validated[f]
        ELSE instance[f]]

(***************************************************************************)
(* IsStaffOrOwner.                                                         *)
(***************************************************************************)
IsStaffOrOwner_has_permission(user, action) ==
    IF action = "create" THEN TRUE ELSE is_authenticated(user)

SafeMethods == {"GET", "HEAD", "OPTIONS"}

IsStaffOrOwner_has_object_permission(user, method, obj) ==
    IF is_authenticated(user) /\ is_staff(user) THEN TRUE
    ELSE IF method \in SafeMethods THEN TRUE
    ELSE IF obj.reporter # None /\ obj.reporter = user THEN TRUE
    ELSE FALSE

(***************************************************************************)
(* ComplaintViewSet.get_queryset.                                          *)
(***************************************************************************)
AllComplaints == DOMAIN complaints

\* Lines 126-130: the status filter of the staff branches.
StatusFilteredIgnored(query, ids) == ids

StatusFiltered(query, ids) ==
    LET status_filter == Get(query, "status") IN
    IF Truthy(status_filter) /\ status_filter # "all"
    THEN {id \in ids : complaints[id].status = status_filter}
    ELSE ids

\* Lines 109-123: staff that is not superuser, scoped by AdminProfile.
StaffScope(user) ==
    IF user \notin DOMAIN AdminProfile THEN {}
    ELSE IF AssignedCategories(user) = {} THEN {}
    ELSE {id \in AllComplaints : complaints[id].category \in AssignedCategories(user)}

\* Line 134: complaints reported by the user.
OwnComplaintsAll(user) == AllComplaints

OwnComplaints(user) == {id \in AllComplaints : complaints[id].reporter = user}

get_queryset(user, query) ==
    IF ~is_authenticated(user) THEN {}
    ELSE IF is_staff(user) THEN
        IF is_superuser(user) THEN StatusFiltered(query, AllComplaints)
        ELSE IF StaffScope(user) = {} THEN {}
        ELSE StatusFiltered(query, StaffScope(user))
    ELSE OwnComplaints(user)

(***************************************************************************)
(* Responses.                                                              *)
(***************************************************************************)
\* ComplaintSerializer.comments: every comment row of the complaints shown.
NestedComments(ids, cms) == {k \in DOMAIN cms : cms[k].complaint \in ids}

\* ComplaintSerializer.attachments: every attachment row of the complaints shown.
NestedAttachments(ids) == {a \in DOMAIN attachments : attachments[a].complaint \in ids}

Response(op, user, kwargs, query, data, outcome, ids, cmts) ==
    [op |-> op, actor |-> user, kwargs |-> kwargs, query |-> query,
     data |-> data, outcome |-> outcome, ids |-> ids, comments |-> cmts,
     attachments |-> NestedAttachments(ids)]

StoreUnchanged ==
    UNCHANGED <<complaints, complaintSeq, comments, commentSeq, attachments,
                attachmentSeq, categories, writes>>

\* Field defaults of a new Category row.
CategoryDefaults == [description |-> ""]

NoResponse == Response("none", Anon, Empty, Empty, Empty, "none", {}, {})

Idle == resp = NoResponse

Init ==
    /\ complaints = Empty
    /\ complaintSeq = 1
    /\ comments = Empty
    /\ commentSeq = 1
    /\ attachments = Empty
    /\ attachmentSeq = 1
    /\ categories = [name \in Categories |-> CategoryDefaults]
    /\ writes = 0
    /\ resp = NoResponse

(***************************************************************************)
(* Request inputs.                                                         *)
(***************************************************************************)
Queries == {Empty, [status |-> "all"], [status |-> "new"], [status |-> "resolved"]}

\* Query strings sent with requests on a single complaint.
ObjectQueries == {Empty, [status |-> "resolved"]}

CreateBodies ==
    { [description |-> "d0", category |-> "c1", reporter_name |-> "n"],
      [description |-> "d0", category |-> "c2", reporter_email |-> "e",
       reporter |-> "ana", status |-> "resolved", assigned_to |-> "op"],
      [description |-> "d0"],
      [reporter_name |-> "n"] }

\* Updates: <<partial, data>>; partial is TRUE for PATCH and FALSE for PUT.
Updates ==
    { <<TRUE, [description |-> "d1", status |-> "resolved", assigned_to |-> "op"]>>,
      <<TRUE, [status |-> "rejected"]>>,
      <<FALSE, [description |-> "d1", reporter |-> "sup", status |-> "in_progress"]>>,
      <<FALSE, [assigned_to |-> "op"]>> }

CommentBodies ==
    { [complaint |-> 1, message |-> "m"],
      [complaint |-> 1, message |-> "m", user |-> "root", public |-> TRUE],
      [complaint |-> 1, message |-> "m", public |-> FALSE],
      [message |-> "m", public |-> TRUE] }

AttachmentBodies == {[file |-> "f", complaint |-> 2], Empty}

\* "c2" exists at start and stands in no AdminProfile; "c3" is new.
CategoryBodies == {[name |-> "c3"], [name |-> "c2", description |-> "x"], Empty}

\* Updates of a category: <<partial, data>>.
CategoryUpdates == {<<TRUE, [description |-> "x"]>>, <<FALSE, [description |-> "x"]>>}

\* Actors that use the category routes in the model: anonymous, plain, staff
\* outside the Administradores group, and a member of the group.
CategoryActors == {Anon, "ana", "sol", "root"}

\* Actors that update and delete complaints in the model: anonymous, reporter,
\* superuser that is not staff, category-scoped staff, staff superuser.
Editors == {Anon, "ana", "sup", "sol", "root"}

\* Actors that file complaints in the model.
Reporters == {Anon, "ana"}

\* Actors that use the comment and attachment routes in the model: anonymous,
\* plain and staff.
Commenters == {Anon, "ana", "sol"}

(***************************************************************************)
(* ComplaintViewSet: list, retrieve, create, update, destroy.              *)
(***************************************************************************)
ListComplaints(user, query) ==
    /\ StoreUnchanged
    /\ IF ~IsStaffOrOwner_has_permission(user, "list")
       THEN resp' = Response("list", user, Empty, query, Empty, "NotAuthenticated", {}, {})
       ELSE resp' = Response("list", user, Empty, query, Empty, "Ok",
                             get_queryset(user, query),
                             NestedComments(get_queryset(user, query), comments))

RetrieveComplaint(user, pk, query) ==
    LET kw == [pk |-> pk] IN
    /\ StoreUnchanged
    /\ IF ~IsStaffOrOwner_has_permission(user, "retrieve")
       THEN resp' = Response("retrieve", user, kw, query, Empty, "NotAuthenticated", {}, {})
       ELSE IF pk \notin get_queryset(user, query)
       THEN resp' = Response("retrieve", user, kw, query, Empty, "NotFound", {}, {})
       ELSE IF ~IsStaffOrOwner_has_object_permission(user, "GET", complaints[pk])
       THEN resp' = Response("retrieve", user, kw, query, Empty, "Forbidden", {}, {})
       ELSE resp' = Response("retrieve", user, kw, query, Empty, "Ok", {pk},
                             NestedComments({pk}, comments))

\* perform_create: the reporter is passed to save() only for a logged-in user.
perform_create_extra(user) ==
    IF is_authenticated(user) THEN [reporter |-> user] ELSE Empty

CreateComplaint(user, data) ==
    /\ IF ~IsStaffOrOwner_has_permission(user, "create")
       THEN /\ StoreUnchanged
            /\ resp' = Response("create", user, Empty, Empty, data, "NotAuthenticated", {}, {})
       ELSE IF ~ComplaintValid(data, FALSE)
       THEN /\ StoreUnchanged
            /\ resp' = Response("create", user, Empty, Empty, data, "ValidationFailure", {}, {})
       ELSE /\ complaintSeq <= MaxComplaints
            /\ writes < MaxWrites
            /\ complaints' = [id \in DOMAIN complaints \cup {complaintSeq} |->
                   IF id = complaintSeq
                   THEN Save(ComplaintDefaults, ComplaintValidated(data),
                             perform_create_extra(user))
                   ELSE complaints[id]]
            /\ complaintSeq' = complaintSeq + 1
            /\ writes' = writes + 1
            /\ UNCHANGED <<comments, commentSeq, attachments, attachmentSeq, categories>>
            /\ resp' = Response("create", user, Empty, Empty, data, "Ok", {complaintSeq}, {})

UpdateComplaint(user, pk, query, partial, data) ==
    LET kw == [pk |-> pk]
        op == IF partial THEN "partial_update" ELSE "update"
        method == IF partial THEN "PATCH" ELSE "PUT"
    IN
    /\ IF ~IsStaffOrOwner_has_permission(user, op)
       THEN /\ StoreUnchanged
            /\ resp' = Response(op, user, kw, query, data, "NotAuthenticated", {}, {})
       ELSE IF pk \notin get_queryset(user, query)
       THEN /\ StoreUnchanged
            /\ resp' = Response(op, user, kw, query, data, "NotFound", {}, {})
       ELSE IF ~IsStaffOrOwner_has_object_permission(user, method, complaints[pk])
       THEN /\ StoreUnchanged
            /\ resp' = Response(op, user, kw, query, data, "Forbidden", {}, {})
       ELSE IF ~ComplaintValid(data, partial)
       THEN /\ StoreUnchanged
            /\ resp' = Response(op, user, kw, query, data, "ValidationFailure", {}, {})
       ELSE /\ writes < MaxWrites
            /\ complaints' = [complaints EXCEPT
                   ![pk] = Save(complaints[pk], ComplaintValidated(data), Empty)]
            /\ writes' = writes + 1
            /\ UNCHANGED <<complaintSeq, comments, commentSeq, attachments, attachmentSeq,
                           categories>>
            /\ resp' = Response(op, user, kw, query, data, "Ok", {pk},
                                NestedComments({pk}, comments))

\* Comment.complaint, on_delete=CASCADE: the comment rows left by deleting complaint pk.
CascadeComments(pk) ==
    [k \in {c \in DOMAIN comments : comments[c].complaint # pk} |-> comments[k]]

\* Attachment.complaint, on_delete=CASCADE: the attachment rows left by deleting
\* complaint pk.
CascadeAttachmentsKept(pk) == attachments

CascadeAttachments(pk) ==
    [a \in {x \in DOMAIN attachments : attachments[x].complaint # pk} |-> attachments[a]]

DestroyComplaint(user, pk, query) ==
    LET kw == [pk |-> pk] IN
    /\ IF ~IsStaffOrOwner_has_permission(user, "destroy")
       THEN /\ StoreUnchanged
            /\ resp' = Response("destroy", user, kw, query, Empty, "NotAuthenticated", {}, {})
       ELSE IF pk \notin get_queryset(user, query)
       THEN /\ StoreUnchanged
            /\ resp' = Response("destroy", user, kw, query, Empty, "NotFound", {}, {})
       ELSE IF ~IsStaffOrOwner_has_object_permission(user, "DELETE", complaints[pk])
       THEN /\ StoreUnchanged
            /\ resp' = Response("destroy", user, kw, query, Empty, "Forbidden", {}, {})
       ELSE /\ writes < MaxWrites
            /\ complaints' = [id \in DOMAIN complaints \ {pk} |-> complaints[id]]
            /\ comments' = CascadeComments(pk)
            /\ attachments' = CascadeAttachments(pk)
            /\ writes' = writes + 1
            /\ UNCHANGED <<complaintSeq, commentSeq, attachmentSeq, categories>>
            /\ resp' = Response("destroy", user, kw, query, Empty, "Ok", {}, {})

(***************************************************************************)
(* CommentViewSet: list, retrieve, create (nested under a complaint).      *)
(***************************************************************************)
IsAuthenticatedOrReadOnly(user, method) ==
    method \in SafeMethods \/ is_authenticated(user)

\* Field defaults of a new Comment row (complaint has none: it is required).
CommentDefaults == [complaint |-> None, user |-> None, message |-> "", public |-> FALSE]

\* CommentWriteSerializer: every modelled field is writable.
CommentWritable == {"complaint", "user", "message", "public"}

CommentValid(data) ==
    /\ "complaint" \in DOMAIN data
    /\ data.complaint \in DOMAIN complaints
    /\ "message" \in DOMAIN data
    /\ "user" \in DOMAIN data => data.user \in Users \cup {None}

CommentValidated(data) ==
    [f \in (DOMAIN data) \cap CommentWritable |-> data[f]]

\* CommentViewSet.get_queryset: staff sees all, others only public comments.
CommentQueryset(user, complaint_pk) ==
    IF is_staff(user)
    THEN {k \in DOMAIN comments : comments[k].complaint = complaint_pk}
    ELSE {k \in DOMAIN comments :
            comments[k].complaint = complaint_pk /\ comments[k].public}

\* CommentViewSet.perform_create: the keyword arguments passed to save().
comment_create_extra_trusting(user, complaint_pk) ==
    [complaint |-> complaint_pk,
     user |-> IF is_authenticated(user) THEN user ELSE None]

comment_create_extra(user, complaint_pk) ==
    [complaint |-> complaint_pk,
     user |-> IF is_authenticated(user) THEN user ELSE None,
     public |-> IF is_authenticated(user) THEN is_staff(user) ELSE FALSE]

ListComments(user, complaint_pk) ==
    LET kw == [complaint_pk |-> complaint_pk] IN
    /\ StoreUnchanged
    /\ IF ~IsAuthenticatedOrReadOnly(user, "GET")
       THEN resp' = Response("list_comments", user, kw, Empty, Empty, "NotAuthenticated", {}, {})
       ELSE resp' = Response("list_comments", user, kw, Empty, Empty, "Ok", {},
                             CommentQueryset(user, complaint_pk))

RetrieveComment(user, complaint_pk, pk) ==
    LET kw == [complaint_pk |-> complaint_pk, pk |-> pk] IN
    /\ StoreUnchanged
    /\ IF ~IsAuthenticatedOrReadOnly(user, "GET")
       THEN resp' = Response("retrieve_comment", user, kw, Empty, Empty, "NotAuthenticated", {}, {})
       ELSE IF pk \notin CommentQueryset(user, complaint_pk)
       THEN resp' = Response("retrieve_comment", user, kw, Empty, Empty, "NotFound", {}, {})
       ELSE resp' = Response("retrieve_comment", user, kw, Empty, Empty, "Ok", {}, {pk})

CreateComment(user, complaint_pk, data) ==
    LET kw == [complaint_pk |-> complaint_pk] IN
    /\ IF ~IsAuthenticatedOrReadOnly(user, "POST")
       THEN /\ StoreUnchanged
            /\ resp' = Response("create_comment", user, kw, Empty, data, "NotAuthenticated", {}, {})
       ELSE IF ~CommentValid(data)
       THEN /\ StoreUnchanged
            /\ resp' = Response("create_comment", user, kw, Empty, data, "ValidationFailure", {}, {})
       ELSE IF complaint_pk \notin DOMAIN complaints
       THEN /\ StoreUnchanged
            /\ resp' = Response("create_comment", user, kw, Empty, data, "NotFound", {}, {})
       ELSE /\ commentSeq <= MaxComments
            /\ writes < MaxWrites
            /\ comments' = [k \in DOMAIN comments \cup {commentSeq} |->
                   IF k = commentSeq
                   THEN Save(CommentDefaults, CommentValidated(data),
                             comment_create_extra(user, complaint_pk))
                   ELSE comments[k]]
            /\ commentSeq' = commentSeq + 1
            /\ writes' = writes + 1
            /\ UNCHANGED <<complaints, complaintSeq, attachments, attachmentSeq, categories>>
            /\ resp' = Response("create_comment", user, kw, Empty, data, "Ok", {}, {commentSeq})

\* DELETE on a comment: CommentViewSet mixes in no DestroyModelMixin, so after
\* the permission check of initial() the dispatcher finds no handler (405).
DestroyComment(user, complaint_pk, pk) ==
    LET kw == [complaint_pk |-> complaint_pk, pk |-> pk] IN
    /\ StoreUnchanged
    /\ IF ~IsAuthenticatedOrReadOnly(user, "DELETE")
       THEN resp' = Response("destroy_comment", user, kw, Empty, Empty, "NotAuthenticated", {}, {})
       ELSE resp' = Response("destroy_comment", user, kw, Empty, Empty, "MethodNotAllowed", {}, {})

(***************************************************************************)
(* AttachmentViewSet: list, create, destroy (nested under a complaint).    *)
(***************************************************************************)
\* Field defaults of a new Attachment row (both fields are required).
AttachmentDefaults == [complaint |-> None, file |-> None]

\* AttachmentSerializer: complaint is read-only, file is writable.
AttachmentWritable == {"file"}

AttachmentValid(data) == "file" \in DOMAIN data

AttachmentValidated(data) ==
    [f \in (DOMAIN data) \cap AttachmentWritable |-> data[f]]

\* AttachmentViewSet.get_queryset: the rows of the complaint named by the route.
AttachmentQueryset(complaint_pk) ==
    {a \in DOMAIN attachments : attachments[a].complaint = complaint_pk}

\* The attachment ids carried by a response of the attachment routes.
WithAttachments(response, ids) == [response EXCEPT !.attachments = ids]

ListAttachments(user, complaint_pk) ==
    LET kw == [complaint_pk |-> complaint_pk] IN
    /\ StoreUnchanged
    /\ IF ~IsAuthenticatedOrReadOnly(user, "GET")
       THEN resp' = Response("list_attachments", user, kw, Empty, Empty,
                             "NotAuthenticated", {}, {})
       ELSE resp' = WithAttachments(
                        Response("list_attachments", user, kw, Empty, Empty, "Ok", {}, {}),
                        AttachmentQueryset(complaint_pk))

CreateAttachment(user, complaint_pk, data) ==
    LET kw == [complaint_pk |-> complaint_pk] IN
    /\ IF ~IsAuthenticatedOrReadOnly(user, "POST")
       THEN /\ StoreUnchanged
            /\ resp' = Response("create_attachment", user, kw, Empty, data,
                                "NotAuthenticated", {}, {})
       ELSE IF ~AttachmentValid(data)
       THEN /\ StoreUnchanged
            /\ resp' = Response("create_attachment", user, kw, Empty, data,
                                "ValidationFailure", {}, {})
       ELSE IF complaint_pk \notin DOMAIN complaints
       THEN /\ StoreUnchanged
            /\ resp' = Response("create_attachment", user, kw, Empty, data,
                                "NotFound", {}, {})
       ELSE /\ attachmentSeq <= MaxAttachments
            /\ writes < MaxWrites
            /\ attachments' = [a \in DOMAIN attachments \cup {attachmentSeq} |->
                   IF a = attachmentSeq
                   THEN Save(AttachmentDefaults, AttachmentValidated(data),
                             [complaint |-> complaint_pk])
                   ELSE attachments[a]]
            /\ attachmentSeq' = attachmentSeq + 1
            /\ writes' = writes + 1
            /\ UNCHANGED <<complaints, complaintSeq, comments, commentSeq, categories>>
            /\ resp' = WithAttachments(
                           Response("create_attachment", user, kw, Empty, data, "Ok", {}, {}),
                           {attachmentSeq})

DestroyAttachment(user, complaint_pk, pk) ==
    LET kw == [complaint_pk |-> complaint_pk, pk |-> pk] IN
    /\ IF ~IsAuthenticatedOrReadOnly(user, "DELETE")
       THEN /\ StoreUnchanged
            /\ resp' = Response("destroy_attachment", user, kw, Empty, Empty,
                                "NotAuthenticated", {}, {})
       ELSE IF ~is_staff(user)
       THEN /\ StoreUnchanged
            /\ resp' = Response("destroy_attachment", user, kw, Empty, Empty,
                                "Forbidden", {}, {})
       ELSE IF pk \notin AttachmentQueryset(complaint_pk)
       THEN /\ StoreUnchanged
            /\ resp' = Response("destroy_attachment", user, kw, Empty, Empty,
                                "NotFound", {}, {})
       ELSE /\ writes < MaxWrites
            /\ attachments' = [a \in DOMAIN attachments \ {pk} |-> attachments[a]]
            /\ writes' = writes + 1
            /\ UNCHANGED <<complaints, complaintSeq, comments, commentSeq, attachmentSeq,
                           categories>>
            /\ resp' = Response("destroy_attachment", user, kw, Empty, Empty, "Ok", {}, {})

(***************************************************************************)
(* CategoryViewSet: list, retrieve, create, update, destroy.  A row is     *)
(* keyed by its unique name; the modelled updates do not rename.           *)
(***************************************************************************)
\* CategorySerializer.is_valid(): name is required and unique.
CategoryValid(data, partial, pk) ==
    /\ partial \/ "name" \in DOMAIN data
    /\ "name" \in DOMAIN data => data.name = pk \/ data.name \notin DOMAIN categories

CategoryValidated(data) ==
    [f \in (DOMAIN data) \cap DOMAIN CategoryDefaults |-> data[f]]

ListCategories(user) ==
    /\ StoreUnchanged
    /\ IF ~IsAuthenticatedOrReadOnly(user, "GET")
       THEN resp' = Response("list_categories", user, Empty, Empty, Empty,
                             "NotAuthenticated", {}, {})
       ELSE resp' = Response("list_categories", user, Empty, Empty, Empty, "Ok", {}, {})

RetrieveCategory(user, pk) ==
    LET kw == [pk |-> pk] IN
    /\ StoreUnchanged
    /\ IF ~IsAuthenticatedOrReadOnly(user, "GET")
       THEN resp' = Response("retrieve_category", user, kw, Empty, Empty,
                             "NotAuthenticated", {}, {})
       ELSE IF pk \notin DOMAIN categories
       THEN resp' = Response("retrieve_category", user, kw, Empty, Empty, "NotFound", {}, {})
       ELSE resp' = Response("retrieve_category", user, kw, Empty, Empty, "Ok", {}, {})

CreateCategory(user, data) ==
    /\ IF ~IsAuthenticatedOrReadOnly(user, "POST")
       THEN /\ StoreUnchanged
            /\ resp' = Response("create_category", user, Empty, Empty, data,
                                "NotAuthenticated", {}, {})
       ELSE IF ~CategoryValid(data, FALSE, None)
       THEN /\ StoreUnchanged
            /\ resp' = Response("create_category", user, Empty, Empty, data,
                                "ValidationFailure", {}, {})
       ELSE /\ writes < MaxWrites
            /\ categories' = [name \in DOMAIN categories \cup {data.name} |->
                   IF name = data.name
                   THEN Save(CategoryDefaults, CategoryValidated(data), Empty)
                   ELSE categories[name]]
            /\ writes' = writes + 1
            /\ UNCHANGED <<complaints, complaintSeq, comments, commentSeq, attachments,
                           attachmentSeq>>
            /\ resp' = Response("create_category", user, Empty, Empty, data, "Ok", {}, {})

UpdateCategory(user, pk, partial, data) ==
    LET kw == [pk |-> pk]
        op == IF partial THEN "partial_update_category" ELSE "update_category"
        method == IF partial THEN "PATCH" ELSE "PUT"
    IN
    /\ IF ~IsAuthenticatedOrReadOnly(user, method)
       THEN /\ StoreUnchanged
            /\ resp' = Response(op, user, kw, Empty, data, "NotAuthenticated", {}, {})
       ELSE IF pk \notin DOMAIN categories
       THEN /\ StoreUnchanged
            /\ resp' = Response(op, user, kw, Empty, data, "NotFound", {}, {})
       ELSE IF ~CategoryValid(data, partial, pk)
       THEN /\ StoreUnchanged
            /\ resp' = Response(op, user, kw, Empty, data, "ValidationFailure", {}, {})
       ELSE /\ writes < MaxWrites
            /\ categories' = [categories EXCEPT
                   ![pk] = Save(categories[pk], CategoryValidated(data), Empty)]
            /\ writes' = writes + 1
            /\ UNCHANGED <<complaints, complaintSeq, comments, commentSeq, attachments,
                           attachmentSeq>>
            /\ resp' = Response(op, user, kw, Empty, data, "Ok", {}, {})

\* Complaint.category, on_delete=SET_NULL: the complaint rows after deleting category pk.
SetNullCategory(pk) ==
    [id \in DOMAIN complaints |->
        IF complaints[id].category = pk
        THEN [complaints[id] EXCEPT !.category = None]
        ELSE complaints[id]]

DestroyCategory(user, pk) ==
    LET kw == [pk |-> pk] IN
    /\ IF ~IsAuthenticatedOrReadOnly(user, "DELETE")
       THEN /\ StoreUnchanged
            /\ resp' = Response("destroy_category", user, kw, Empty, Empty,
                                "NotAuthenticated", {}, {})
       ELSE IF pk \notin DOMAIN categories
       THEN /\ StoreUnchanged
            /\ resp' = Response("destroy_category", user, kw, Empty, Empty, "NotFound", {}, {})
       ELSE /\ writes < MaxWrites
            /\ categories' = [name \in DOMAIN categories \ {pk} |-> categories[name]]
            /\ complaints' = SetNullCategory(pk)
            /\ writes' = writes + 1
            /\ UNCHANGED <<complaintSeq, comments, commentSeq, attachments, attachmentSeq>>
            /\ resp' = Response("destroy_category", user, kw, Empty, Empty, "Ok", {}, {})

\* custom_permissions.IsAdminOrReadOnly.has_permission (no view installs it).
IsAdminOrReadOnly_has_permission(user, method) ==
    IF method \in SafeMethods THEN is_authenticated(user)
    ELSE IF ~is_authenticated(user) THEN FALSE
    ELSE IF "Administradores" \notin DOMAIN Groups THEN FALSE
    ELSE user \in Groups["Administradores"]

(***************************************************************************)
(* ComplaintAdmin (admin site): status is an editable field of the change  *)
(* form; the site is open to staff holding the model permission, which a   *)
(* superuser always holds.                                                 *)
(***************************************************************************)
has_change_permission(user) == is_staff(user) /\ is_superuser(user)

AdminChangeStatus(user, pk, status) ==
    /\ has_change_permission(user)
    /\ pk \in DOMAIN complaints
    /\ writes < MaxWrites
    /\ complaints' = [complaints EXCEPT ![pk].status = status]
    /\ writes' = writes + 1
    /\ UNCHANGED <<complaintSeq, comments, commentSeq, attachments, attachmentSeq, categories>>
    /\ resp' = Response("admin_change", user, [pk |-> pk], Empty,
                        [status |-> status], "Ok", {}, {})

(***************************************************************************)
(* The response leaves the server; the next request can be taken.          *)
(***************************************************************************)
Deliver ==
    /\ ~Idle
    /\ resp' = NoResponse
    /\ StoreUnchanged

\* Primary keys named by requests: every stored row and one key that is not stored.
ComplaintKeys == DOMAIN complaints \cup {complaintSeq}

CommentKeys == DOMAIN comments \cup {commentSeq}

AttachmentKeys == DOMAIN attachments \cup {attachmentSeq}

\* Category names named by requests: a row present at start and assigned in an
\* AdminProfile, and a name that is not present at start.
CategoryKeys == {"c1", "c3"}

\* Requests are taken one at a time: a handler runs when no response is pending.
Next ==
    \/ Idle /\ \E user \in Actors, query \in Queries : ListComplaints(user, query)
    \/ Idle /\ \E user \in Actors, pk \in ComplaintKeys : RetrieveComplaint(user, pk, Empty)
    \/ Idle /\ \E user \in Reporters, data \in CreateBodies : CreateComplaint(user, data)
    \/ Idle /\ \E user \in Editors, pk \in ComplaintKeys, query \in ObjectQueries,
                  upd \in Updates :
                    UpdateComplaint(user, pk, query, upd[1], upd[2])
    \/ Idle /\ \E user \in Editors, pk \in ComplaintKeys, query \in ObjectQueries :
                    DestroyComplaint(user, pk, query)
    \/ Idle /\ \E user \in Commenters, complaint_pk \in ComplaintKeys :
                    ListComments(user, complaint_pk)
    \/ Idle /\ \E user \in Commenters, complaint_pk \in ComplaintKeys, pk \in CommentKeys :
                    RetrieveComment(user, complaint_pk, pk)
    \/ Idle /\ \E user \in Commenters, complaint_pk \in ComplaintKeys, data \in CommentBodies :
                    CreateComment(user, complaint_pk, data)
    \/ Idle /\ \E user \in Commenters, complaint_pk \in ComplaintKeys, pk \in CommentKeys :
                    DestroyComment(user, complaint_pk, pk)
    \/ Idle /\ \E user \in Commenters, complaint_pk \in ComplaintKeys :
                    ListAttachments(user, complaint_pk)
    \/ Idle /\ \E user \in Commenters, complaint_pk \in ComplaintKeys,
                  data \in AttachmentBodies :
                    CreateAttachment(user, complaint_pk, data)
    \/ Idle /\ \E user \in Commenters, complaint_pk \in ComplaintKeys,
                  pk \in AttachmentKeys :
                    DestroyAttachment(user, complaint_pk, pk)
    \/ Idle /\ \E user \in CategoryActors : ListCategories(user)
    \/ Idle /\ \E user \in CategoryActors, pk \in CategoryKeys : RetrieveCategory(user, pk)
    \/ Idle /\ \E user \in CategoryActors, data \in CategoryBodies :
                    CreateCategory(user, data)
    \/ Idle /\ \E user \in CategoryActors, pk \in CategoryKeys, upd \in CategoryUpdates :
                    UpdateCategory(user, pk, upd[1], upd[2])
    \/ Idle /\ \E user \in CategoryActors, pk \in CategoryKeys : DestroyCategory(user, pk)
    \/ Idle /\ \E user \in Users, pk \in DOMAIN complaints, status \in STATUS_CHOICES :
                    AdminChangeStatus(user, pk, status)
    \/ Deliver

Spec == Init /\ [][Next]_vars

(***************************************************************************)
(* Properties.                                                             *)
(***************************************************************************)
StatusParam == Get(resp.query, "status")

ComplaintWriteOps == {"update", "partial_update", "destroy"}

ComplaintUpdateOps == {"update", "partial_update"}

\* C1: a logged-in actor that is not staff is listed exactly the complaints it
\* reported, whatever status parameter the request carries.
C1_NonStaffListsOwnComplaints ==
    (resp.op = "list" /\ is_authenticated(resp.actor) /\ ~is_staff(resp.actor)) =>
        /\ resp.outcome = "Ok"
        /\ resp.ids = {id \in DOMAIN complaints : complaints[id].reporter = resp.actor}

C1_Witness ==
    /\ resp.op = "list" /\ is_authenticated(resp.actor) /\ ~is_staff(resp.actor)
    /\ StatusParam = "resolved"
    /\ \E id \in resp.ids : complaints[id].status # "resolved"
    /\ \E id \in DOMAIN complaints : id \notin resp.ids

\* C2: a superuser, staff or not, with or without an AdminProfile, is listed
\* every stored complaint when the request carries no status filter.
C2_SuperuserListsAll ==
    (resp.op = "list" /\ is_authenticated(resp.actor) /\ is_superuser(resp.actor)
        /\ "status" \notin DOMAIN resp.query) =>
        /\ resp.outcome = "Ok"
        /\ resp.ids = DOMAIN complaints

\* C3: staff that is not superuser is listed nothing without an AdminProfile or
\* with an empty category set, and otherwise exactly the complaints of its
\* categories, narrowed to the status parameter when one other than "all" is sent.
C3_StaffListsAssignedCategories ==
    (resp.op = "list" /\ is_staff(resp.actor) /\ ~is_superuser(resp.actor)) =>
        /\ resp.outcome = "Ok"
        /\ resp.ids =
             IF resp.actor \notin DOMAIN AdminProfile THEN {}
             ELSE IF AssignedCategories(resp.actor) = {} THEN {}
             ELSE {id \in DOMAIN complaints :
                     /\ complaints[id].category \in AssignedCategories(resp.actor)
                     /\ ("status" \in DOMAIN resp.query /\ resp.query.status # "all")
                            => complaints[id].status = resp.query.status}

C3_Witness ==
    /\ resp.op = "list" /\ is_staff(resp.actor) /\ ~is_superuser(resp.actor)
    /\ StatusParam = "resolved"
    /\ resp.ids # {}
    /\ \E id \in DOMAIN complaints :
          /\ id \notin resp.ids
          /\ complaints[id].category \in AssignedCategories(resp.actor)

\* C4: the stored reporter of a created complaint is the logged-in actor, or
\* null for an anonymous actor, whatever reporter the body names; and no update
\* request changes the stored reporter of any complaint.
C4_ReporterNeverClientSupplied ==
    [][ /\ (resp'.op = "create" /\ resp'.outcome = "Ok") =>
              \A id \in resp'.ids :
                  complaints'[id].reporter =
                      IF is_authenticated(resp'.actor) THEN resp'.actor ELSE None
        /\ resp'.op \in ComplaintUpdateOps =>
              \A id \in DOMAIN complaints :
                  /\ id \in DOMAIN complaints'
                  /\ complaints'[id].reporter = complaints[id].reporter
      ]_vars

\* C5: an anonymous create with neither reporter_name nor reporter_email fails
\* validation, and with one of them succeeds; so every stored complaint without
\* a reporter carries a contact name or a contact email.
C5_AnonymousComplaintHasContact ==
    /\ (resp.op = "create" /\ ~is_authenticated(resp.actor)
            /\ "description" \in DOMAIN resp.data) =>
          IF Truthy(Get(resp.data, "reporter_name"))
                \/ Truthy(Get(resp.data, "reporter_email"))
          THEN resp.outcome = "Ok"
          ELSE resp.outcome = "ValidationFailure"
    /\ \A id \in DOMAIN complaints :
          complaints[id].reporter = None =>
              complaints[id].reporter_name # "" \/ complaints[id].reporter_email # ""

\* C6: an update or delete of a stored complaint by a logged-in actor is carried
\* out when the actor is staff or the reporter, and is otherwise answered
\* Forbidden (never NotFound) with the store left as it was.
C6_StaffOrOwnerElseForbidden ==
    [][ \A pk \in DOMAIN complaints :
            (resp'.op \in ComplaintWriteOps /\ resp'.kwargs = [pk |-> pk]
                /\ is_authenticated(resp'.actor)) =>
                IF is_staff(resp'.actor) \/ complaints[pk].reporter = resp'.actor
                THEN resp'.outcome \in {"Ok", "ValidationFailure"}
                ELSE resp'.outcome = "Forbidden" /\ complaints' = complaints
      ]_vars

\* C7: an update by the non-staff reporter of a complaint leaves the stored
\* status and assigned_to as they were, and stores the description it sent.
C7_OwnerCannotSetStatusOrAssignee ==
    [][ \A pk \in DOMAIN complaints :
            (resp'.op \in ComplaintUpdateOps /\ resp'.kwargs = [pk |-> pk]
                /\ resp'.outcome = "Ok" /\ ~is_staff(resp'.actor)
                /\ complaints[pk].reporter = resp'.actor) =>
                /\ complaints'[pk].status = complaints[pk].status
                /\ complaints'[pk].assigned_to = complaints[pk].assigned_to
                /\ "description" \in DOMAIN resp'.data =>
                       complaints'[pk].description = resp'.data.description
      ]_vars

\* C8: a successful update by a staff actor stores the status and the
\* assigned_to that the request carries.
C8_StaffSetsStatusAndAssignee ==
    [][ \A pk \in DOMAIN complaints :
            (resp'.op \in ComplaintUpdateOps /\ resp'.kwargs = [pk |-> pk]
                /\ resp'.outcome = "Ok" /\ is_staff(resp'.actor)) =>
                /\ ("status" \in DOMAIN resp'.data
                        /\ resp'.data.status \in STATUS_CHOICES) =>
                       complaints'[pk].status = resp'.data.status
                /\ "assigned_to" \in DOMAIN resp'.data =>
                       complaints'[pk].assigned_to = resp'.data.assigned_to
      ]_vars

\* C9: a created comment is public exactly when its creator is staff, belongs to
\* the complaint of the route and to the creating actor, whatever public,
\* complaint or user the body names.
C9_CommentFieldsServerDerived ==
    (resp.op = "create_comment" /\ resp.outcome = "Ok") =>
        /\ resp.comments # {}
        /\ \A k \in resp.comments :
              /\ comments[k].public = is_staff(resp.actor)
              /\ comments[k].complaint = resp.kwargs.complaint_pk
              /\ comments[k].user = resp.actor

C9_Witness ==
    /\ resp.op = "create_comment" /\ resp.outcome = "Ok"
    /\ ~is_staff(resp.actor)
    /\ "public" \in DOMAIN resp.data /\ resp.data.public = TRUE
    /\ "user" \in DOMAIN resp.data /\ resp.data.user # resp.actor
    /\ resp.data.complaint # resp.kwargs.complaint_pk

\* C10: no response to a non-staff actor holds a comment that is not public,
\* be it a comment list, a comment, or the comments nested in a complaint
\* returned by list, retrieve, create or update; staff is listed every comment
\* of the complaint.
C10_PrivateCommentsHiddenFromNonStaff ==
    /\ (resp.op \in {"list_comments", "retrieve_comment", "list", "retrieve",
                     "create", "update", "partial_update"}
            /\ resp.outcome = "Ok" /\ ~is_staff(resp.actor)) =>
          \A k \in resp.comments : comments[k].public
    /\ (resp.op = "list_comments" /\ resp.outcome = "Ok" /\ is_staff(resp.actor)) =>
          resp.comments =
              {k \in DOMAIN comments : comments[k].complaint = resp.kwargs.complaint_pk}

NestedDestroyOps == {"destroy_comment", "destroy_attachment"}

\* C11: a delete of a comment or of an attachment by an actor that is not staff
\* is answered Forbidden, whether or not the target and its complaint exist, and
\* leaves the store as it was.  (The refusal of an anonymous actor by the
\* permission class, NotAuthenticated, is counted as that answer here.)
C11_NonStaffNestedDeleteForbidden ==
    [][ (resp'.op \in NestedDestroyOps /\ ~is_staff(resp'.actor)) =>
            /\ IF is_authenticated(resp'.actor)
               THEN resp'.outcome = "Forbidden"
               ELSE resp'.outcome \in {"Forbidden", "NotAuthenticated"}
            /\ StoreUnchanged
      ]_vars

CategoryWriteOps ==
    {"create_category", "update_category", "partial_update_category", "destroy_category"}

CategoryReadOps == {"list_categories", "retrieve_category"}

\* C12: a category create, update or delete by an actor outside the
\* Administradores group never succeeds and leaves the categories as they were,
\* and a category read by a logged-in actor is not denied.
C12_CategoryWritesNeedAdministrators ==
    [][ /\ (resp'.op \in CategoryWriteOps
                /\ ~IsAdminOrReadOnly_has_permission(resp'.actor, "POST")) =>
              /\ resp'.outcome # "Ok"
              /\ categories' = categories
        /\ (resp'.op \in CategoryReadOps /\ is_authenticated(resp'.actor)) =>
              resp'.outcome \in {"Ok", "NotFound"}
      ]_vars

NestedReadOps ==
    {"list_comments", "retrieve_comment", "list_attachments"}

\* C13: every stored comment and every stored attachment belongs to a stored
\* complaint, and a list or retrieve under the id of a complaint that is not
\* stored returns no comment and no attachment.
C13_CascadeDelete ==
    /\ \A k \in DOMAIN comments : comments[k].complaint \in DOMAIN complaints
    /\ \A a \in DOMAIN attachments : attachments[a].complaint \in DOMAIN complaints
    /\ (resp.op \in NestedReadOps /\ resp.kwargs.complaint_pk \notin DOMAIN complaints) =>
          resp.comments = {} /\ resp.attachments = {}

\* A complaint that had a comment was deleted: comments leave the store only
\* with their complaint.
C13_Witness ==
    /\ resp.op = "destroy" /\ resp.outcome = "Ok"
    /\ commentSeq > 1
    /\ comments = Empty

NestedOps ==
    {"list_comments", "retrieve_comment", "create_comment", "destroy_comment",
     "list_attachments", "create_attachment", "destroy_attachment"}

\* C14: a comment or attachment operation under the id of a complaint that is
\* not stored is answered NotFound, whatever else the request carries.
C14_MissingParentNotFound ==
    (resp.op \in NestedOps /\ resp.kwargs.complaint_pk \notin DOMAIN complaints) =>
        resp.outcome = "NotFound"

\* C15: the attachment list of a stored complaint hands attachments only to an
\* actor that sees the complaint in its own complaint list, and hands such an
\* actor exactly the attachments of that complaint.
C15_AttachmentsBehindComplaintGate ==
    (resp.op = "list_attachments" /\ resp.outcome = "Ok"
        /\ resp.kwargs.complaint_pk \in DOMAIN complaints) =>
        IF resp.kwargs.complaint_pk \in get_queryset(resp.actor, Empty)
        THEN resp.attachments =
                 {a \in DOMAIN attachments :
                     attachments[a].complaint = resp.kwargs.complaint_pk}
        ELSE resp.attachments = {}

====
